---- MODULE Spec2Model ----
(***************************************************************************)
(* A model of the vector_search package: the FAISSVectorDB store           *)
(* (database.py) with its two on-disk artifacts, and the answer-generation *)
(* retry loop (llm.py), and the file processors (processors.py).           *)
(*                                                                         *)
(* A document is a dict {id, metadata}; its metadata is a dict of its own, *)
(* which Python shares by reference.  The metadata dicts live in the heap  *)
(* metas, and a document holds the address of its metadata, so that        *)
(* aliasing between the store and a caller is visible.  Files hold values. *)
(* Similarity scores are kept in halves: the stored number is 2*score, so  *)
(* 1 - d/2 is the integer 2 - d.                                           *)
(***************************************************************************)
EXTENDS Integers, Sequences, FiniteSets, TLC

\* ------------------------------------------------------------ bounds
MaxDocs == 2         \* add_vector is not called on a store holding MaxDocs documents
Dims == {1}          \* the dimension the application configures
Coords == {0, 2}     \* vector components
MetaVals == {"original", "changed"}   \* contents of a metadata dict; a new document's is "original"
Ids == {"a", "b"}    \* document ids
Ks == {1, 2}         \* the k search is called with
\* the vectors callers pass: of a configured dimension, or too long
Vectors == UNION {[1..n -> Coords] : n \in Dims} \cup {<<0, 0>>}
MRefs == 1..MaxDocs  \* addresses of metadata dicts

VARIABLES
    pc,          \* "up": a FAISSVectorDB instance exists; "down": the process died
    dimension,   \* self.dimension
    index,       \* self.index: [d, xb], a faiss.IndexFlatL2 (its own d, its vectors)
    documents,   \* self.documents: a list of dicts [id, meta (an address), score]
    metas,       \* heap of metadata dicts
    indexFile,   \* the file at self.index_file
    dataFile,    \* the file at self.data_file
    call,        \* the caller's last step: [op, vec, k, outcome, twice]
    results,     \* the list the last search returned
    faulted,     \* a write has failed or the process has died (at most one per run)
    lpc,         \* generate_answer_from_results: "idle", "loop" (about to call), "returned", "raised"
    request,     \* its arguments: [query, results]
    attempt,     \* the loop variable attempt
    retry_delay, \* the local retry_delay, in seconds
    invocations, \* calls of openai.ChatCompletion.create made by this run
    sleeps,      \* the delays passed to time.sleep by this run, in order
    errors,      \* the exceptions this run caught, in order
    answer,      \* what the run returned
    fpc,         \* process_file: "idle", "called", "returned", "ValueError"
    file_type,   \* its argument file_type
    content,     \* its argument content, as the parser reads it
    extracted    \* the list of documents it returned

storeVars == <<pc, dimension, index, documents, metas, indexFile, dataFile, call, results, faulted>>
llmVars == <<lpc, request, attempt, retry_delay, invocations, sleeps, errors, answer>>
fileVars == <<fpc, file_type, content, extracted>>
vars == <<storeVars, llmVars, fileVars>>

\* ------------------------------------------------------------ values
NoMeta == "unallocated"
EmptyMetas == [r \in MRefs |-> NoMeta]
NoFile == [st |-> "absent", d |-> 0, xb |-> <<>>, docs |-> <<>>]
CorruptFile == [st |-> "corrupt", d |-> 0, xb |-> <<>>, docs |-> <<>>]

Min(a, b) == IF a <= b THEN a ELSE b

\* faiss.IndexFlatL2(d)
IndexFlatL2(d) == [d |-> d, xb |-> <<>>]

\* np.array([vector]).astype('float32'): the components of the model are small
\* integers, which float32 represents exactly.
AsFloat32(vector) == [i \in DOMAIN vector |-> vector[i]]

\* the caller's step record: the operation, its arguments (the vector, the
\* document's id, k) and how it ended; twice: it is a clear() called right after
\* a clear() that returned; retry: it is an add_vector called right after an
\* add_vector whose _save raised
Call(op, vec, id, k, outcome) ==
    [op |-> op, vec |-> vec, id |-> id, k |-> k, outcome |-> outcome,
     twice |-> (op = "clear" /\ call.op = "clear" /\ call.outcome = "ok"),
     retry |-> (op = "add" /\ call.op = "add" /\ call.outcome = "PersistenceError")]

\* ------------------------------------------------------------ files
\* a write of the vector added last alone
WriteIndexNewOnly(idx) ==
    [st |-> "ok", d |-> idx.d, xb |-> SubSeq(idx.xb, Len(idx.xb), Len(idx.xb)), docs |-> <<>>]
\* faiss.write_index(self.index, self.index_file)
WriteIndex(idx) == [st |-> "ok", d |-> idx.d, xb |-> idx.xb, docs |-> <<>>]

\* pickle.dump(self.documents, f): the documents by value, metadata included
Pickle(docs, ms) ==
    [i \in DOMAIN docs |-> [id |-> docs[i].id, meta |-> ms[docs[i].meta], score |-> docs[i].score]]
\* a _save that pickles the list as it was before the append
WriteDataBeforeAppend(docs, ms) ==
    [st |-> "ok", d |-> 0, xb |-> <<>>, docs |-> Pickle(SubSeq(docs, 1, Len(docs) - 1), ms)]
WriteData(docs, ms) == [st |-> "ok", d |-> 0, xb |-> <<>>, docs |-> Pickle(docs, ms)]

\* pickle.load(f): the documents, their metadata dicts new objects at 1..n
UnpickleDocs(file) ==
    [i \in DOMAIN file.docs |-> [id |-> file.docs[i].id, meta |-> i, score |-> file.docs[i].score]]
UnpickleMetas(file) ==
    [r \in MRefs |-> IF r \in DOMAIN file.docs THEN file.docs[r].meta ELSE NoMeta]

\* os.path.exists(path)
Exists(file) == file.st # "absent"

\* os.remove(path) without the os.path.exists guard
RemoveRaisesUnguarded(file) == ~Exists(file)
\* if os.path.exists(path): os.remove(path)
\* os.remove raises FileNotFoundError on a missing file; the guard keeps it from one
RemoveRaises(file) == Exists(file) /\ ~Exists(file)
RemoveIfExists(file) == IF Exists(file) THEN NoFile ELSE file

\* ------------------------------------------------------------ __init__
\* an __init__ that lets a failed pickle.load pass
LoadsIndexOnly(ifile, dfile) == Exists(ifile) /\ Exists(dfile) /\ ifile.st = "ok"
\* __init__ keeps what it loaded: both files exist and neither load raises
Loads(ifile, dfile) == Exists(ifile) /\ Exists(dfile) /\ ifile.st = "ok" /\ dfile.st = "ok"

\* the store __init__(dimension) builds from the two files
LoadedIndex(dim, ifile, dfile) ==
    IF Loads(ifile, dfile) THEN [d |-> ifile.d, xb |-> ifile.xb] ELSE IndexFlatL2(dim)
LoadedDocs(ifile, dfile) == IF Loads(ifile, dfile) THEN UnpickleDocs(dfile) ELSE <<>>
LoadedMetas(ifile, dfile) == IF Loads(ifile, dfile) THEN UnpickleMetas(dfile) ELSE EmptyMetas

\* FAISSVectorDB(dimension, index_file, data_file) in a new process, with the
\* dimension the application configures
Initialize(dim) ==
    /\ dim = dimension
    /\ UNCHANGED <<llmVars, fileVars>>
    /\ dimension' = dim
    /\ index' = LoadedIndex(dim, indexFile, dataFile)
    /\ documents' = LoadedDocs(indexFile, dataFile)
    /\ metas' = LoadedMetas(indexFile, dataFile)
    /\ pc' = "up"
    /\ call' = Call("init", <<>>, "", 0, "ok")
    /\ results' = <<>>
    /\ UNCHANGED <<indexFile, dataFile, faulted>>

\* ------------------------------------------------------------ search
\* squared Euclidean distance, as IndexFlatL2 computes it
RECURSIVE SumSq(_, _, _)
SumSq(x, q, n) == IF n = 0 THEN 0 ELSE (x[n] - q[n]) * (x[n] - q[n]) + SumSq(x, q, n - 1)
\* the Euclidean distance itself, where it is a whole number
L2NotSquared(x, q) == CHOOSE r \in 0..SumSq(x, q, Len(x)) : r * r = SumSq(x, q, Len(x))
L2sqr(x, q) == SumSq(x, q, Len(x))

\* vector i comes before vector j in the result order: nearer first; of two at
\* the same distance, the one added first
Before(xb, q, i, j) ==
    \/ L2sqr(xb[i], q) < L2sqr(xb[j], q)
    \/ (L2sqr(xb[i], q) = L2sqr(xb[j], q) /\ i <= j)

\* the k nearest of the vectors at the positions S, as (distance, label) pairs,
\* labels 0-based; label -1 once the vectors run out
\* a selection that never takes the vector it found out of the candidates
NearestWithRepeats(xb, q, S, k) ==
    IF S = {} THEN [p \in 1..k |-> [idx |-> -1, dist |-> -1]]
    ELSE LET i == CHOOSE a \in S : \A b \in S : Before(xb, q, a, b)
         IN [p \in 1..k |-> [idx |-> i - 1, dist |-> L2sqr(xb[i], q)]]
RECURSIVE Nearest(_, _, _, _)
Nearest(xb, q, S, k) ==
    IF k = 0 THEN <<>>
    ELSE IF S = {} THEN <<[idx |-> -1, dist |-> -1]>> \o Nearest(xb, q, S, k - 1)
    ELSE LET i == CHOOSE a \in S : \A b \in S : Before(xb, q, a, b)
         IN <<[idx |-> i - 1, dist |-> L2sqr(xb[i], q)]>> \o Nearest(xb, q, S \ {i}, k - 1)

\* distances, indices = self.index.search(query_np, k)
FaissSearch(xb, q, k) == Nearest(xb, q, DOMAIN xb, k)

\* k_to_search = min(k, self.index.ntotal)
KToSearch(k, ntotal) == Min(k, ntotal)

\* if idx != -1
IsMatch(hit) == hit.idx # -1

\* a score clamped at 0
SimilarityClamped(dist) == IF 2 - dist < 0 THEN 0 ELSE 2 - dist
\* float(1 - distances[0][i] / 2), in halves
Similarity(dist) == 2 - dist

\* the (distance, label) pairs the result loop handles
Hits(idx, q, k) == SelectSeq(FaissSearch(idx.xb, AsFloat32(q), KToSearch(k, Len(idx.xb))), IsMatch)

\* doc = self.documents[idx].copy(); doc["similarity_score"] = similarity
\* (a new dict with the fields of the stored one: it holds the same metadata dict)
ScoredCopy(doc, dist) == [id |-> doc.id, meta |-> doc.meta, score |-> <<Similarity(dist)>>]

\* a search that checks the query's length before it looks at ntotal
OutcomeOfLengthFirst(idx, docs, q, hits) ==
    IF Len(q) # idx.d THEN "DimensionMismatch"
    ELSE IF \E p \in DOMAIN hits : hits[p].idx + 1 > Len(docs) THEN "IndexError"
    ELSE "ok"
\* how search(query_vector, k) ends, given the pairs its loop handles
OutcomeOf(idx, docs, q, hits) ==
    IF Len(idx.xb) = 0 THEN "ok"
    ELSE IF Len(q) # idx.d THEN "DimensionMismatch"
    ELSE IF \E p \in DOMAIN hits : hits[p].idx + 1 > Len(docs) THEN "IndexError"
    ELSE "ok"
SearchOutcome(idx, docs, q, k) ==
    OutcomeOf(idx, docs, q, IF Len(q) = idx.d THEN Hits(idx, q, k) ELSE <<>>)

\* the list search(query_vector, k) returns ("results"); empty when it raises
ResultsOf(idx, docs, q, hits) ==
    IF OutcomeOf(idx, docs, q, hits) # "ok" THEN <<>>
    ELSE [p \in DOMAIN hits |-> ScoredCopy(docs[hits[p].idx + 1], hits[p].dist)]
SearchResults(idx, docs, q, k) ==
    ResultsOf(idx, docs, q, IF Len(q) = idx.d THEN Hits(idx, q, k) ELSE <<>>)

\* a loop that scores the stored dict itself: doc = self.documents[idx]
StoredAfterScoringInPlace(idx, docs, q, hits) ==
    [i \in DOMAIN docs |->
        IF \E p \in DOMAIN hits : hits[p].idx + 1 = i
        THEN [docs[i] EXCEPT !.score =
                 <<Similarity((CHOOSE h \in {hits[p] : p \in DOMAIN hits} : h.idx + 1 = i).dist)>>]
        ELSE docs[i]]
\* self.documents after the result loop: the loop assigns similarity_score to
\* the copy it made, and the stored dicts keep their fields
StoredAfter(idx, docs, q, hits) == docs

Search(q, k) ==
    /\ pc = "up"
    /\ UNCHANGED <<llmVars, fileVars>>
    /\ results' = SearchResults(index, documents, q, k)
    /\ documents' = StoredAfter(index, documents, q,
                                IF Len(q) = index.d THEN Hits(index, q, k) ELSE <<>>)
    /\ call' = Call("search", q, "", k, SearchOutcome(index, documents, q, k))
    /\ UNCHANGED <<pc, dimension, index, metas, indexFile, dataFile, faulted>>

\* ------------------------------------------------------------ add_vector
\* self.index.add(vector_np): the wrapper asserts the vector's length
AddAccepts(idx, vector) == Len(vector) = idx.d
\* an add that puts the vector in front
IndexAddFront(idx, vector) == [idx EXCEPT !.xb = <<AsFloat32(vector)>> \o @]
IndexAdd(idx, vector) == [idx EXCEPT !.xb = Append(@, AsFloat32(vector))]

\* the stages at which _save can stop: "open_index" (the index file could not
\* be opened), "index" (in the middle of writing it), "open_data" (index
\* written, the data file could not be opened), "data" (in the middle of writing
\* it); "done" is the complete _save
SaveStages == {"open_index", "index", "open_data", "data"}

\* the index file after a _save that got as far as stage
SavedIndex(stage, idx, old) ==
    CASE stage = "open_index" -> old
      [] stage = "index" -> CorruptFile
      [] OTHER -> WriteIndex(idx)

\* the data file after a _save that got as far as stage
SavedData(stage, docs, ms, old) ==
    CASE stage \in {"open_index", "index", "open_data"} -> old
      [] stage = "data" -> CorruptFile
      [] OTHER -> WriteData(docs, ms)

\* the memory of a process that has died
Down ==
    /\ pc' = "down"
    /\ faulted' = TRUE
    /\ dimension' = dimension
    /\ index' = IndexFlatL2(0)
    /\ documents' = <<>>
    /\ metas' = EmptyMetas
    /\ results' = <<>>

\* self.documents.append(document): the caller's document {id, metadata}, its
\* metadata dict at the next address
NewMRef(docs) == Len(docs) + 1
AppendDoc(docs, id) == Append(docs, [id |-> id, meta |-> NewMRef(docs), score |-> <<>>])
WithMeta(ms, docs) == [ms EXCEPT ![NewMRef(docs)] = "original"]

\* add_vector(vector, document) running to its end: "stage" is how far _save got
AddVectorTo(vector, id, stage) ==
    /\ pc = "up"
    /\ UNCHANGED <<llmVars, fileVars>>
    /\ Len(documents) < MaxDocs
    /\ IF ~AddAccepts(index, vector)
       THEN /\ stage = "done"
            /\ call' = Call("add", vector, id, 0, "DimensionMismatch")
            /\ UNCHANGED <<index, documents, metas, indexFile, dataFile>>
       ELSE /\ index' = IndexAdd(index, vector)
            /\ documents' = AppendDoc(documents, id)
            /\ metas' = WithMeta(metas, documents)
            /\ indexFile' = SavedIndex(stage, index', indexFile)
            /\ dataFile' = SavedData(stage, documents', metas', dataFile)
            /\ call' = Call("add", vector, id, 0, IF stage = "done" THEN "ok" ELSE "PersistenceError")
    /\ results' = <<>>
    /\ faulted' = (faulted \/ stage # "done")
    /\ UNCHANGED <<pc, dimension>>

\* add_vector returning, or raising on a vector of the wrong length
AddVector(vector, id) == AddVectorTo(vector, id, "done")

\* add_vector raising because _save failed at stage
AddVectorPersistFail(vector, id, stage) ==
    /\ ~faulted
    /\ AddAccepts(index, vector)
    /\ AddVectorTo(vector, id, stage)

\* the process dying inside add_vector: before _save touched a file
\* ("open_index"), inside _save at a later stage, or after _save ("done")
AddVectorCrash(vector, id, stage) ==
    /\ pc = "up"
    /\ ~faulted
    /\ UNCHANGED <<llmVars, fileVars>>
    /\ Len(documents) < MaxDocs
    /\ AddAccepts(index, vector)
    /\ indexFile' = SavedIndex(stage, IndexAdd(index, vector), indexFile)
    /\ dataFile' = SavedData(stage, AppendDoc(documents, id), WithMeta(metas, documents), dataFile)
    /\ Down
    /\ call' = Call("add", vector, id, 0, "crash")

\* ------------------------------------------------------------ clear
\* clear()
Clear ==
    /\ pc = "up"
    /\ UNCHANGED <<llmVars, fileVars>>
    /\ index' = IndexFlatL2(dimension)
    /\ documents' = <<>>
    /\ metas' = EmptyMetas
    /\ indexFile' = IF RemoveRaises(indexFile) THEN indexFile ELSE RemoveIfExists(indexFile)
    /\ dataFile' = IF RemoveRaises(indexFile) \/ RemoveRaises(dataFile) THEN dataFile ELSE RemoveIfExists(dataFile)
    /\ call' = Call("clear", <<>>, "", 0,
                    IF RemoveRaises(indexFile) \/ RemoveRaises(dataFile) THEN "FileNotFoundError" ELSE "ok")
    /\ results' = <<>>
    /\ UNCHANGED <<pc, dimension, faulted>>

\* the process dying inside clear, between the two removals
ClearCrash ==
    /\ pc = "up"
    /\ ~faulted
    /\ UNCHANGED <<llmVars, fileVars>>
    /\ Exists(dataFile)
    /\ indexFile' = RemoveIfExists(indexFile)
    /\ Down
    /\ call' = Call("clear", <<>>, "", 0, "crash")
    /\ UNCHANGED dataFile

\* ------------------------------------------------------------ the caller
\* the caller assigns a top-level field of a returned document: result["id"] = id
MutateResultField(p, id) ==
    /\ pc = "up"
    /\ UNCHANGED <<llmVars, fileVars>>
    /\ call.op = "search"
    /\ p \in DOMAIN results
    /\ results[p].id # id
    /\ results' = [results EXCEPT ![p].id = id]
    /\ call' = Call("mutate", <<>>, "", 0, "ok")
    /\ UNCHANGED <<pc, dimension, index, documents, metas, indexFile, dataFile, faulted>>

\* the caller writes into a returned document's metadata: result["metadata"][..] = mv
MutateResultMetadata(p, mv) ==
    /\ pc = "up"
    /\ UNCHANGED <<llmVars, fileVars>>
    /\ call.op = "search"
    /\ p \in DOMAIN results
    /\ metas[results[p].meta] # mv
    /\ metas' = [metas EXCEPT ![results[p].meta] = mv]
    /\ call' = Call("mutate", <<>>, "", 0, "ok")
    /\ UNCHANGED <<pc, dimension, index, documents, indexFile, dataFile, results, faulted>>

\* ------------------------------------------------------------ llm.py
max_retries == 3
InitialRetryDelay == 2

Queries == {"q1", "q2"}
Answers == {"yes", "no"}               \* the completions the service may give
Exceptions == {"timeout", "rate limit"}  \* the exceptions the call may raise
ResultCounts == {0, 1, 2}              \* lengths of the result list passed in

\* f"Error generating answer: {str(e)}"
ErrorString(e) == <<"Error generating answer: ", e>>

\* the state before and between runs
LLMIdle ==
    /\ lpc = "idle"
    /\ request = [query |-> "", results |-> 0]
    /\ attempt = 0
    /\ retry_delay = 0
    /\ invocations = 0
    /\ sleeps = <<>>
    /\ errors = <<>>
    /\ answer = <<>>

\* generate_answer_from_results(query, results, api_key, model) up to the loop
Generate(query, n) ==
    /\ lpc \in {"idle", "returned", "raised"}
    /\ request' = [query |-> query, results |-> n]
    /\ attempt' = 0
    /\ retry_delay' = InitialRetryDelay
    /\ invocations' = 0
    /\ sleeps' = <<>>
    /\ errors' = <<>>
    /\ answer' = <<>>
    /\ lpc' = "loop"
    /\ UNCHANGED <<storeVars, fileVars>>

\* for attempt in range(max_retries)
InLoop == lpc = "loop" /\ attempt < max_retries

\* one iteration in which openai.ChatCompletion.create returns: return answer
CallSucceeds(a) ==
    /\ InLoop
    /\ invocations' = invocations + 1
    /\ answer' = <<a>>
    /\ lpc' = "returned"
    /\ UNCHANGED <<request, attempt, retry_delay, sleeps, errors>>
    /\ UNCHANGED <<storeVars, fileVars>>

\* a handler that sleeps and goes on after the last attempt too
RetriesAlways(att) == att < max_retries
\* if attempt < max_retries - 1
Retries(att) == att < max_retries - 1

\* the else branch of the handler: return f"Error generating answer: {str(e)}"
GiveUp(e) ==
    /\ answer' = ErrorString(e)
    /\ lpc' = "returned"
    /\ UNCHANGED <<attempt, retry_delay, sleeps>>

\* a handler that sleeps and never doubles the delay
BackoffConstant ==
    /\ sleeps' = Append(sleeps, retry_delay)
    /\ retry_delay' = retry_delay
    /\ attempt' = attempt + 1
    /\ UNCHANGED <<answer, lpc>>
\* time.sleep(retry_delay); retry_delay *= 2; and the loop's next attempt
Backoff ==
    /\ sleeps' = Append(sleeps, retry_delay)
    /\ retry_delay' = retry_delay * 2
    /\ attempt' = attempt + 1
    /\ UNCHANGED <<answer, lpc>>

\* one iteration in which openai.ChatCompletion.create raises e
CallFails(e) ==
    /\ InLoop
    /\ invocations' = invocations + 1
    /\ errors' = Append(errors, e)
    /\ IF Retries(attempt) THEN Backoff ELSE GiveUp(e)
    /\ UNCHANGED request
    /\ UNCHANGED <<storeVars, fileVars>>

\* ------------------------------------------------------------ processors.py
\* A JSON value is [t, v, items]: t its type, v the literal of a scalar as JSON
\* writes it, items the members of a list or a dict as [k, val] (k the key).
\* Texts are sequences of pieces, so that the two serializations can differ.
Value(t, v, items) == [t |-> t, v |-> v, items |-> items]
Member(k, val) == [k |-> k, val |-> val]
Scalars == {Value("num", "1", <<>>), Value("str", "a", <<>>),
            Value("bool", "true", <<>>), Value("null", "null", <<>>)}
Lengths == {0, 1, 2}
SeqsOf(S) == UNION {[1..n -> S] : n \in Lengths}
\* the elements of a top-level list: scalars, lists of scalars, dicts of scalars
Elements ==
    Scalars
    \cup {Value("list", "", its) : its \in SeqsOf({Member("", x) : x \in Scalars})}
    \cup {Value("dict", "", <<>>)}
    \cup {Value("dict", "", <<Member("k", x)>>) : x \in Scalars}
KeySeqs == {<<>>, <<"k">>, <<"m">>, <<"k", "m">>}
\* what json.loads can give, and content that does not parse
JsonInputs ==
    Scalars
    \cup {Value("list", "", its) : its \in SeqsOf({Member("", x) : x \in Elements})}
    \cup UNION {{Value("dict", "", [i \in DOMAIN ks |-> Member(ks[i], vals[i])]) :
                    vals \in [DOMAIN ks -> Elements]} : ks \in KeySeqs}
    \cup {Value("malformed", "", <<>>)}

\* f"{i}"
Decimal(i) == <<"0", "1", "2", "3">>[i + 1]

\* json.dumps(value)
RECURSIVE Dumps(_), DumpsMembers(_, _)
Dumps(x) ==
    CASE x.t = "str" -> <<"\"", x.v, "\"">>
      [] x.t = "list" -> <<"[">> \o DumpsMembers(x.items, FALSE) \o <<"]">>
      [] x.t = "dict" -> <<"{">> \o DumpsMembers(x.items, TRUE) \o <<"}">>
      [] OTHER -> <<x.v>>
DumpsMembers(items, keyed) ==
    IF items = <<>> THEN <<>>
    ELSE (IF keyed THEN <<"\"", items[1].k, "\"", ": ">> ELSE <<>>)
         \o Dumps(items[1].val)
         \o (IF Len(items) > 1 THEN <<", ">> ELSE <<>>)
         \o DumpsMembers(Tail(items), keyed)

\* repr(value), which str() of a list or a dict applies to the members
RECURSIVE Repr(_), ReprMembers(_, _)
Repr(x) ==
    CASE x.t = "str" -> <<"'", x.v, "'">>
      [] x.t = "bool" -> <<IF x.v = "true" THEN "True" ELSE "False">>
      [] x.t = "null" -> <<"None">>
      [] x.t = "list" -> <<"[">> \o ReprMembers(x.items, FALSE) \o <<"]">>
      [] x.t = "dict" -> <<"{">> \o ReprMembers(x.items, TRUE) \o <<"}">>
      [] OTHER -> <<x.v>>
ReprMembers(items, keyed) ==
    IF items = <<>> THEN <<>>
    ELSE (IF keyed THEN <<"'", items[1].k, "'", ": ">> ELSE <<>>)
         \o Repr(items[1].val)
         \o (IF Len(items) > 1 THEN <<", ">> ELSE <<>>)
         \o ReprMembers(Tail(items), keyed)

\* str(value): a string is itself, anything else its repr
Str(x) == IF x.t = "str" THEN <<x.v>> ELSE Repr(x)

\* the text of a list item: isinstance(item, dict) decides
ItemText(item) == IF item.t = "dict" THEN Dumps(item) ELSE Str(item)
\* the text of a dict value: isinstance(value, (dict, list)) decides
ValueText(value) == IF value.t \in {"dict", "list"} THEN Dumps(value) ELSE Str(value)

Doc(id, text, source, at, original) ==
    [id |-> id, text |-> text, metadata |-> [source |-> source, at |-> at, original |-> original]]

\* process_json(content) once json.loads returned data
JsonDocuments(data) ==
    CASE data.t = "list" ->
           [i \in DOMAIN data.items |->
               Doc(<<"json_", Decimal(i - 1)>>, ItemText(data.items[i].val), "json",
                   Decimal(i - 1), data.items[i].val)]
      [] data.t = "dict" ->
           [i \in DOMAIN data.items |->
               Doc(<<"json_", data.items[i].k>>, ValueText(data.items[i].val), "json",
                   data.items[i].k, data.items[i].val)]
      [] OTHER -> <<Doc(<<"json_", "0">>, Str(data), "json", "", data)>>

\* CSV content is [ok, rows]: ok, it decodes and csv.reader reads it; rows, the
\* rows csv.reader gives (a blank line is the row [])
Cells == {"x", "y"}
Rows == SeqsOf(Cells)
CsvInputs == {[ok |-> o, rows |-> rs] : o \in BOOLEAN, rs \in SeqsOf(Rows) \cup [1..3 -> Rows]}

\* row_dict.get(header, ''): the value of the last column j < len(headers)
\* of the row under that header
RowGet(headers, row, header) ==
    LET cols == {j \in DOMAIN row : j \in DOMAIN headers /\ headers[j] = header}
    IN IF cols = {} THEN "" ELSE row[CHOOSE j \in cols : \A c \in cols : c <= j]

\* ", ".join([f"{header}: {row_dict.get(header, '')}" for header in headers])
RECURSIVE RowText(_, _, _)
RowText(headers, row, n) ==
    IF n > Len(headers) THEN <<>>
    ELSE <<headers[n], ": ", RowGet(headers, row, headers[n])>>
         \o (IF n < Len(headers) THEN <<", ">> ELSE <<>>)
         \o RowText(headers, row, n + 1)

\* rows that are taken for the header as well
DataRowsWithHeader(rows) == rows
\* rows[1:]
DataRows(rows) == Tail(rows)

\* process_csv(content) once the rows are read
CsvDocuments(rows) ==
    IF rows = <<>> THEN <<>>
    ELSE [i \in DOMAIN DataRows(rows) |->
             Doc(<<"csv_", Decimal(i)>>, RowText(rows[1], DataRows(rows)[i], 1), "csv",
                 Decimal(i), [h \in {rows[1][j] : j \in DOMAIN rows[1]} |->
                                 RowGet(rows[1], DataRows(rows)[i], h)])]

\* PDF content is [ok, pages]: the text extract_text() gives for each page
PageTexts == {"", " ", "text"}
PdfInputs == {[ok |-> o, pages |-> ps] : o \in BOOLEAN, ps \in SeqsOf(PageTexts)}
\* text.strip()
Strip(text) == IF text = " " THEN "" ELSE text

\* process_pdf(content): a document for each page whose text is not blank
RECURSIVE PdfDocuments(_, _)
PdfDocuments(pages, i) ==
    IF i > Len(pages) THEN <<>>
    ELSE (IF Strip(pages[i]) # ""
          THEN <<Doc(<<"pdf_page_", Decimal(i)>>, <<pages[i]>>, "pdf", Decimal(i), Decimal(Len(pages)))>>
          ELSE <<>>)
         \o PdfDocuments(pages, i + 1)

FileTypes == {"json", "csv", "pdf", "txt"}

\* no call of process_file is in progress
FilesIdle ==
    /\ fpc = "idle"
    /\ file_type = ""
    /\ content = <<>>
    /\ extracted = <<>>

\* a caller about to call process_file(content, file_type)
FileCalled ==
    /\ fpc = "called"
    /\ extracted = <<>>
    /\ file_type \in FileTypes
    /\ \/ file_type = "json" /\ content \in JsonInputs
       \/ file_type = "csv" /\ content \in CsvInputs
       \/ file_type = "pdf" /\ content \in PdfInputs
       \/ file_type = "txt" /\ content \in {<<>>}

\* whether process_file(content, file_type) raises ValueError
Raises(c, t) ==
    CASE t = "json" -> c.t = "malformed"
      [] t \in {"csv", "pdf"} -> ~c.ok
      [] OTHER -> TRUE

\* process_file(content, file_type)
ProcessFile ==
    /\ fpc = "called"
    /\ fpc' = IF Raises(content, file_type) THEN "ValueError" ELSE "returned"
    /\ extracted' =
          CASE Raises(content, file_type) -> <<>>
            [] file_type = "json" -> JsonDocuments(content)
            [] file_type = "csv" -> CsvDocuments(content.rows)
            [] OTHER -> PdfDocuments(content.pages, 1)
    /\ UNCHANGED <<file_type, content>>
    /\ UNCHANGED <<storeVars, llmVars>>

\* ------------------------------------------------------------ specifications
InitStore ==
    /\ pc = "up"
    /\ dimension \in Dims
    /\ index = IndexFlatL2(dimension)
    /\ documents = <<>>
    /\ metas = EmptyMetas
    /\ indexFile = NoFile
    /\ dataFile = NoFile
    /\ call = [op |-> "init", vec |-> <<>>, id |-> "", k |-> 0, outcome |-> "ok", twice |-> FALSE, retry |-> FALSE]
    /\ results = <<>>
    /\ faulted = FALSE

Init == InitStore /\ LLMIdle /\ FilesIdle

Next ==
    \/ \E dim \in Dims : Initialize(dim)
    \/ \E v \in Vectors, id \in Ids : AddVector(v, id)
    \/ \E v \in Vectors, id \in Ids, stage \in SaveStages : AddVectorPersistFail(v, id, stage)
    \/ \E v \in Vectors, id \in Ids, stage \in SaveStages \cup {"done"} : AddVectorCrash(v, id, stage)
    \/ \E q \in Vectors, k \in Ks : Search(q, k)
    \/ Clear
    \/ ClearCrash
    \/ \E p \in 1..MaxDocs, id \in Ids : MutateResultField(p, id)
    \/ \E p \in 1..MaxDocs, mv \in MetaVals : MutateResultMetadata(p, mv)

\* the vector store and its caller
Spec == Init /\ [][Next]_vars

NextLLM ==
    \/ \E query \in Queries, n \in ResultCounts : Generate(query, n)
    \/ \E a \in Answers : CallSucceeds(a)
    \/ \E e \in Exceptions : CallFails(e)

\* the answer generator and the service it calls
SpecLLM == Init /\ [][NextLLM]_vars

\* process_file called once on each input
InitFiles == InitStore /\ LLMIdle /\ FileCalled
NextFiles == ProcessFile
SpecFiles == InitFiles /\ [][NextFiles]_vars

\* a store after three add_vector calls that returned: three vectors with
\* components 0, 1 or 2, their documents, both files written
LineCoords == {0, 1, 2}
LineVectors == [1..1 -> LineCoords]
ThreeDocs == <<[id |-> "a", meta |-> 1, score |-> <<>>],
               [id |-> "b", meta |-> 2, score |-> <<>>],
               [id |-> "c", meta |-> 3, score |-> <<>>]>>
InitThree ==
    /\ pc = "up"
    /\ dimension = 1
    /\ \E xb \in [1..3 -> LineVectors] : index = [d |-> 1, xb |-> xb]
    /\ documents = ThreeDocs
    /\ metas = [r \in 1..3 |-> "original"]
    /\ indexFile = WriteIndex(index)
    /\ dataFile = WriteData(documents, metas)
    /\ call = [op |-> "add", vec |-> index.xb[3], id |-> "c", k |-> 0, outcome |-> "ok", twice |-> FALSE, retry |-> FALSE]
    /\ results = <<>>
    /\ faulted = FALSE
    /\ LLMIdle
    /\ FilesIdle

NextThree == \E q \in LineVectors, k \in 1..3 : Search(q, k)

\* searches of a store of three vectors
SpecThree == InitThree /\ [][NextThree]_vars
\* ------------------------------------------------------------ claims
\* what a caller sees of the documents: their fields, the metadata by content
ByValue(docs, ms) == Pickle(docs, ms)

\* what search(q, k) gives on a store: how it ends and the documents it returns
SearchView(idx, docs, ms, q, k) ==
    [outcome |-> SearchOutcome(idx, docs, q, k), results |-> ByValue(SearchResults(idx, docs, q, k), ms)]

\* every search gives on the store in memory what it gives on the store a new
\* process would build from the two files with the same dimension
RoundTrip ==
    \A q \in Vectors, k \in Ks :
        SearchView(index, documents, metas, q, k)
        = SearchView(LoadedIndex(dimension, indexFile, dataFile), LoadedDocs(indexFile, dataFile),
                     LoadedMetas(indexFile, dataFile), q, k)

\* C1: while a store exists its index holds as many vectors as its document
\* list has entries, and an add_vector that returned left its vector and its
\* document at the same position, the last one.
C1_VectorsPairDocuments ==
    pc = "up" =>
        /\ Len(index.xb) = Len(documents)
        /\ (call.op = "add" /\ call.outcome = "ok") =>
              /\ index.xb[Len(documents)] = call.vec
              /\ documents[Len(documents)].id = call.id

\* C2, as claimed: after any add_vector call, however it ended, a restart with
\* the same dimension and files changes no search result.
C2_RoundTripAfterAnyAdd ==
    (pc = "up" /\ call.op = "add") => RoundTrip

\* C2, amended: after an add_vector call that returned, a restart with the same
\* dimension and files changes no search result (same documents, order, scores).
C2_RoundTripAfterAdd ==
    (pc = "up" /\ call.op = "add" /\ call.outcome = "ok") => RoundTrip

\* two different vectors were added and both adds returned: a search can tell
\* the order and the scores apart
C2_Witness ==
    /\ pc = "up" /\ call.op = "add" /\ call.outcome = "ok"
    /\ Len(index.xb) = 2 /\ Len(documents) = 2
    /\ index.xb[1] # index.xb[2]
    /\ SearchView(index, documents, metas, <<0>>, 2).results # <<>>

\* C3: add_vector or search with a vector whose length differs from the
\* configured dimension fails with DimensionMismatch, in every store state, and
\* changes neither the index, the documents nor the two files.
C3_WrongLengthRejected ==
    [][(pc = "up" /\ call'.op \in {"add", "search"} /\ Len(call'.vec) # dimension)
        => /\ call'.outcome = "DimensionMismatch"
           /\ UNCHANGED <<index, documents, metas, indexFile, dataFile>>]_vars
\* C4: a run of generate_answer_from_results calls the completion service at
\* most max_retries times; once a call succeeds the run has returned that call's
\* answer and calls no more; once max_retries calls have failed it has returned
\* the error string of the last failure; it never raises.
C4_Invocations ==
    /\ invocations <= max_retries
    /\ lpc # "raised"
    /\ Len(errors) <= invocations /\ invocations <= Len(errors) + 1
    /\ invocations = Len(errors) + 1 =>
          lpc = "returned" /\ \E a \in Answers : answer = <<a>>
    /\ Len(errors) = max_retries =>
          lpc = "returned" /\ answer = ErrorString(errors[max_retries])
    /\ (lpc = "loop" /\ Len(errors) = invocations) => attempt = invocations
C4_BoundedRetries ==
    /\ []C4_Invocations
    /\ [][lpc # "loop" => invocations' = 0]_vars

\* two failures, then a success: three invocations, the answer returned
C4_Witness ==
    lpc = "returned" /\ Len(errors) = 2 /\ invocations = 3 /\ answer = <<"yes">> /\ sleeps = <<2, 4>>

\* C5: the store a new process builds after the process died inside add_vector
\* holds as many vectors as documents.
C5_CrashRecoveryConsistent ==
    [][(pc = "down" /\ call.op = "add" /\ pc' = "up") => Len(index'.xb) = Len(documents')]_vars

\* C6: the constructor returns; unless both files are there and load, the store
\* it builds is empty with the configured dimension, so a store that resumes
\* vectors or documents has loaded both files.
C6_FallbackToFresh ==
    call.op = "init" =>
        /\ pc = "up" /\ call.outcome = "ok"
        /\ (indexFile.st # "ok" \/ dataFile.st # "ok") =>
              index = IndexFlatL2(dimension) /\ documents = <<>>
        /\ (indexFile.st = "ok" /\ dataFile.st = "ok") =>
              /\ index.xb = indexFile.xb
              /\ ByValue(documents, metas) = dataFile.docs

\* a written index file beside a data file that does not load: the store is fresh
C6_Witness ==
    /\ call.op = "init" /\ pc = "up"
    /\ indexFile.st = "ok" /\ Len(indexFile.xb) > 0 /\ dataFile.st = "corrupt"
    /\ index.xb = <<>> /\ documents = <<>>

\* the position of the stored document a returned document was copied from
\* (the address of its metadata dict is the position it was stored at)
Position(result) == result.meta

\* C7: a search that returns on a non-empty store lists documents by
\* non-decreasing squared distance from the query, each a copy of a stored
\* document with score 1 - d/2 (here 2 - d), d the squared distance between the
\* query and the vector at that document's position; the score is not clamped.
C7_NearestFirstScores ==
    (pc = "up" /\ call.op = "search" /\ call.outcome = "ok" /\ index.xb # <<>>) =>
        /\ \A p \in DOMAIN results :
              /\ Position(results[p]) \in DOMAIN index.xb
              /\ Position(results[p]) \in DOMAIN documents
              /\ results[p].id = documents[Position(results[p])].id
              /\ results[p].score = <<2 - L2sqr(index.xb[Position(results[p])], call.vec)>>
        /\ \A p, r \in DOMAIN results :
              p < r => L2sqr(index.xb[Position(results[p])], call.vec)
                        <= L2sqr(index.xb[Position(results[r])], call.vec)

\* the second vector added is the nearer one and comes first; the farther one
\* has a negative score
C7_Witness ==
    /\ pc = "up" /\ call.op = "search" /\ call.outcome = "ok"
    /\ Len(results) = 2
    /\ Position(results[1]) = 2 /\ Position(results[2]) = 1
    /\ results[1].score = <<2>> /\ results[2].score = <<-2>>

\* the store's memory and the two files
ClearedState == <<dimension, index, documents, metas, indexFile, dataFile>>

\* C8: clear leaves an empty store of the same dimension and neither file; a
\* clear right after a clear raises nothing and changes nothing.
C8_ClearIdempotent ==
    /\ [](call.op = "clear" /\ call.outcome # "crash" =>
            /\ call.outcome = "ok" /\ pc = "up"
            /\ index = IndexFlatL2(dimension) /\ documents = <<>>
            /\ ~Exists(indexFile) /\ ~Exists(dataFile))
    /\ [][(call'.op = "clear" /\ call'.outcome # "crash") => dimension' = dimension]_vars
    /\ [][(call.op = "clear" /\ call.outcome = "ok" /\ call'.op = "clear" /\ call'.outcome # "crash")
            => call'.outcome = "ok" /\ ClearedState' = ClearedState]_vars

\* a clear called right after a clear has returned
C8_Witness ==
    call.op = "clear" /\ call.twice /\ call.outcome = "ok" /\ pc = "up"

\* C9: nothing a caller does to a returned document changes a stored document,
\* and no stored document carries a similarity score.
C9_ResultsIndependent ==
    /\ [](\A i \in DOMAIN documents : documents[i].score = <<>>)
    /\ [][call'.op = "mutate" => ByValue(documents', metas') = ByValue(documents, metas)]_vars

\* C10: when add_vector returns, the two files hold what memory holds, the new
\* vector and document included, and all the counts agree.
C10_AddPersistsAll ==
    (pc = "up" /\ call.op = "add" /\ call.outcome = "ok") =>
        /\ indexFile.st = "ok" /\ indexFile.xb = index.xb
        /\ dataFile.st = "ok" /\ dataFile.docs = ByValue(documents, metas)
        /\ indexFile.xb[Len(indexFile.xb)] = call.vec
        /\ dataFile.docs[Len(dataFile.docs)].id = call.id
        /\ Len(indexFile.xb) = Len(dataFile.docs)
        /\ Len(dataFile.docs) = Len(documents) /\ Len(indexFile.xb) = Len(index.xb)

\* C11: a search returns at most min(k, n) documents of a store of n vectors,
\* and no stored position twice.
C11_KClamped ==
    (pc = "up" /\ call.op = "search") =>
        /\ Len(results) <= Min(call.k, Len(index.xb))
        /\ \A p, r \in DOMAIN results : Position(results[p]) = Position(results[r]) => p = r

\* k = 2 on a store of one vector returns one document; a store of two returns
\* its two positions
C11_Witness ==
    /\ pc = "up" /\ call.op = "search" /\ call.outcome = "ok" /\ call.k = 2
    /\ Len(index.xb) = 1 /\ Len(documents) = 1 /\ Len(results) = 1

\* C12: search on a store of zero vectors returns an empty list and raises
\* nothing, whatever the query and k.
C12_EmptyStoreSearch ==
    [][(pc = "up" /\ Len(index.xb) = 0 /\ call'.op = "search")
        => call'.outcome = "ok" /\ results' = <<>>]_vars

\* a query of the wrong length on the empty store
C12_Witness ==
    /\ pc = "up" /\ call.op = "search" /\ call.outcome = "ok"
    /\ Len(index.xb) = 0 /\ Len(call.vec) # dimension /\ results = <<>>

\* C13: a search, returning or raising, leaves the index, the documents, the
\* dimension and the two files as they were.
C13_SearchReadOnly ==
    [][call'.op = "search" =>
          /\ index' = index /\ dimension' = dimension
          /\ ByValue(documents', metas') = ByValue(documents, metas)
          /\ documents' = documents
          /\ indexFile' = indexFile /\ dataFile' = dataFile]_vars

\* a search that returned documents of a store with both files written
C13_Witness ==
    /\ pc = "up" /\ call.op = "search" /\ call.outcome = "ok" /\ Len(results) = 2
    /\ indexFile.st = "ok" /\ dataFile.st = "ok"

\* C14: the retry loop sleeps 2s, 4s and 8s: a run in which three calls failed
\* has slept 2, 4, 8 seconds in that order.
C14_BackoffThreeDelays ==
    (lpc = "returned" /\ Len(errors) = max_retries) => sleeps = <<2, 4, 8>>

\* C14 as the code has it: the delay starts at 2 seconds and doubles after each
\* failed attempt that another attempt follows; the run sleeps once per failure
\* but the last, so three failures sleep 2 and 4 seconds in that order and the
\* third returns the error string with no sleep.
C14_BackoffBetweenAttempts ==
    /\ lpc \in {"loop", "returned"} =>
          /\ Len(sleeps) = Min(Len(errors), max_retries - 1)
          /\ \A i \in DOMAIN sleeps :
                sleeps[i] = IF i = 1 THEN InitialRetryDelay ELSE 2 * sleeps[i - 1]
    /\ (lpc = "returned" /\ Len(errors) = max_retries) => sleeps = <<2, 4>>

\* three failures in a row: two sleeps, then the error string
C14_Witness ==
    /\ lpc = "returned" /\ Len(errors) = max_retries /\ invocations = max_retries
    /\ sleeps = <<2, 4>> /\ answer = ErrorString(errors[max_retries])

\* the Euclidean distance of two vectors of one component
OnTheLine(x, q) == IF x[1] >= q[1] THEN x[1] - q[1] ELSE q[1] - x[1]

\* the stored vectors lie at Euclidean distances 0, 1 and 2 from the query of
\* the search just made with k = 3
DistancesZeroOneTwo ==
    /\ pc = "up" /\ call.op = "search" /\ call.k = 3
    /\ Len(index.xb) = 3
    /\ {OnTheLine(index.xb[i], call.vec) : i \in DOMAIN index.xb} = {0, 1, 2}

\* the search returned the three documents nearest first
NearestFirstOfThree ==
    /\ call.outcome = "ok" /\ Len(results) = 3
    /\ \A p \in 1..3 : OnTheLine(index.xb[Position(results[p])], call.vec) = p - 1

\* C15: three vectors at Euclidean distances 0, 1, 2 from the query come back
\* in that order with scores 1.0, 0.5, 0.0 (in halves: 2, 1, 0).
C15_ScoresOneHalfZero ==
    DistancesZeroOneTwo =>
        /\ NearestFirstOfThree
        /\ <<results[1].score, results[2].score, results[3].score>> = <<<<2>>, <<1>>, <<0>>>>

\* C15 as the code has it: they come back in that order with scores 1.0, 0.5
\* and -1.0 (in halves: 2, 1, -2), the score being 1 - d/2 of the squared
\* distances 0, 1, 4.
C15_ScoresOneHalfMinusOne ==
    DistancesZeroOneTwo =>
        /\ NearestFirstOfThree
        /\ <<results[1].score, results[2].score, results[3].score>> = <<<<2>>, <<1>>, <<-2>>>>

\* the farthest vector was added first and the nearest last
C15_Witness ==
    /\ DistancesZeroOneTwo /\ NearestFirstOfThree
    /\ Position(results[1]) = 3 /\ Position(results[3]) = 1
    /\ results[3].score = <<-2>>

\* a mapping or a nested sequence
Structured(x) == x.t \in {"dict", "list"}

\* C16: process_json on a top-level list of n elements returns n documents
\* json_0 .. json_(n-1) in element order, the text of each the element's JSON
\* form if the element is a dict or a list and its string form otherwise; on a
\* top-level scalar it returns the one document json_0.
C16_JsonNormalized ==
    (fpc = "returned" /\ file_type = "json") =>
        /\ content.t = "list" =>
              /\ Len(extracted) = Len(content.items)
              /\ \A i \in DOMAIN extracted :
                    /\ extracted[i].id = <<"json_", Decimal(i - 1)>>
                    /\ extracted[i].text = IF Structured(content.items[i].val)
                                            THEN Dumps(content.items[i].val)
                                            ELSE Str(content.items[i].val)
        /\ content.t \notin {"list", "dict"} =>
              Len(extracted) = 1 /\ extracted[1].id = <<"json_", "0">>

\* C17: process_csv on a header row and n data rows returns n documents
\* csv_1 .. csv_n in row order (none for a header alone), and on no rows at all
\* it returns an empty list and raises nothing.
C17_CsvNormalized ==
    (fpc # "called" /\ file_type = "csv" /\ content.ok) =>
        /\ fpc = "returned"
        /\ content.rows = <<>> => extracted = <<>>
        /\ content.rows # <<>> =>
              /\ Len(extracted) = Len(content.rows) - 1
              /\ \A i \in DOMAIN extracted :
                    /\ extracted[i].id = <<"csv_", Decimal(i)>>
                    /\ extracted[i].text = RowText(content.rows[1], content.rows[i + 1], 1)

\* a header and two different data rows
C17_Witness ==
    /\ fpc = "returned" /\ file_type = "csv"
    /\ Len(content.rows) = 3 /\ content.rows[2] # content.rows[3]
    /\ Len(extracted) = 2
    /\ extracted[1].text # extracted[2].text

\* s is the beginning of t
IsPrefix(s, t) == Len(s) <= Len(t) /\ SubSeq(t, 1, Len(s)) = s

\* C18: an add_vector that returns puts the new vector after the vectors and the
\* new document after the documents (both at position n of a store of n
\* records) and leaves the earlier ones as they were, in order; add_vector and
\* search, however they end, remove and rewrite nothing.
C18_AppendOnly ==
    /\ [][(pc = "up" /\ call'.op = "add" /\ call'.outcome = "ok") =>
            /\ index'.xb = Append(index.xb, call'.vec)
            /\ Len(documents') = Len(documents) + 1
            /\ documents'[Len(documents')].id = call'.id
            /\ (Len(index.xb) = Len(documents) => Len(index'.xb) = Len(documents'))]_vars
    /\ [][(pc = "up" /\ pc' = "up" /\ call'.op \in {"add", "search"}) =>
            /\ IsPrefix(index.xb, index'.xb)
            /\ IsPrefix(ByValue(documents, metas), ByValue(documents', metas'))]_vars

\* a second record, different from the first, added after it
C18_Witness ==
    /\ pc = "up" /\ call.op = "add" /\ call.outcome = "ok"
    /\ Len(index.xb) = 2 /\ Len(documents) = 2
    /\ index.xb[1] # index.xb[2] /\ documents[1].id # documents[2].id
    /\ index.xb[2] = call.vec /\ documents[2].id = call.id

\* C19: no two documents of the store have the same id.
C19_IdsUnique ==
    \A i, j \in DOMAIN documents : documents[i].id = documents[j].id => i = j

\* C20: an add_vector whose _save raised has left the new vector and the new
\* document in memory, the counts equal as before; the add_vector that returns
\* next on that instance leaves both files holding all that memory holds, the
\* record of the failed call included.
C20_SelfHealing ==
    /\ [][(pc = "up" /\ call'.op = "add" /\ call'.outcome = "PersistenceError") =>
            /\ index'.xb = Append(index.xb, call'.vec)
            /\ Len(documents') = Len(documents) + 1
            /\ documents'[Len(documents')].id = call'.id
            /\ (Len(index.xb) = Len(documents) => Len(index'.xb) = Len(documents'))]_vars
    /\ [][(pc = "up" /\ call.op = "add" /\ call.outcome = "PersistenceError"
            /\ call'.op = "add" /\ call'.outcome = "ok") =>
            /\ indexFile'.st = "ok" /\ indexFile'.xb = index'.xb
            /\ dataFile'.st = "ok" /\ dataFile'.docs = ByValue(documents', metas')
            /\ Len(indexFile'.xb) = Len(dataFile'.docs)
            /\ indexFile'.xb[Len(index.xb)] = call.vec
            /\ dataFile'.docs[Len(documents)].id = call.id]_vars

\* an add_vector that returned right after one whose _save raised
C20_Witness ==
    /\ pc = "up" /\ call.op = "add" /\ call.retry /\ call.outcome = "ok"
    /\ Len(index.xb) = 2 /\ Len(documents) = 2
    /\ indexFile.st = "ok" /\ Len(indexFile.xb) = 2
    /\ dataFile.st = "ok" /\ Len(dataFile.docs) = 2
====
